---- MODULE Spec2Model ----
(***************************************************************************)
(* A model of the Bloom filter of src/bloom.go: a BloomFilter{m, k, b}     *)
(* over a willf/bitset bit set, whose k positions for an item are the      *)
(* 64-bit murmur3 hash of the item followed by the round index, reduced    *)
(* modulo m.                                                               *)
(*                                                                         *)
(* A 64-bit unsigned value is the sequence of its 8 bytes, least           *)
(* significant first, so that no intermediate value exceeds what TLC's     *)
(* integers hold. Go's uint is taken to be 64 bits wide.                   *)
(***************************************************************************)
EXTENDS Integers, Sequences, FiniteSets

\* Largest m and k handed to New, and the longest slice handed to
\* TestLocations.
MaxM == 4
MaxK == 3
MaxLocs == 2

\* The items (byte slices / strings) the callers use: "", "a", "b", "ab".
Items == { <<>>, <<97>>, <<98>>, <<97, 98>> }

\* The 64-bit values the callers hand to TestLocations:
\* 1, 2^32 + 2 and 2^64 - 1.
LocVals == { <<1, 0, 0, 0, 0, 0, 0, 0>>,
             <<2, 0, 0, 0, 1, 0, 0, 0>>,
             <<255, 255, 255, 255, 255, 255, 255, 255>> }

RECURSIVE SeqsUpTo(_, _)
SeqsUpTo(S, n) ==
    IF n = 0 THEN { <<>> }
    ELSE LET shorter == SeqsUpTo(S, n - 1)
         IN  shorter \cup { Append(s, v) : s \in shorter, v \in S }

LocSeqs == SeqsUpTo(LocVals, MaxLocs)

----------------------------------------------------------------------------
(* 64-bit unsigned arithmetic on 8-byte little-endian sequences. These are *)
(* functions, so that each argument is evaluated once, before the          *)
(* application.                                                            *)

Byte == 0..255
Word == Seq(Byte)

Pow2(n) == 2 ^ n

Zero64 == <<0, 0, 0, 0, 0, 0, 0, 0>>

\* uint64(n) for a small n (n < 2^31).
U64[n \in Nat] ==
    <<n % 256, (n \div 256) % 256, (n \div 65536) % 256, (n \div 16777216) % 256,
      0, 0, 0, 0>>

\* Bit i (0 = least significant) of the byte a.
bit(a, i) == (a \div Pow2(i)) % 2

\* a ^ b on bytes
xorByte(a, b) ==
    ((bit(a, 0) + bit(b, 0)) % 2) + 2 * ((bit(a, 1) + bit(b, 1)) % 2)
    + 4 * ((bit(a, 2) + bit(b, 2)) % 2) + 8 * ((bit(a, 3) + bit(b, 3)) % 2)
    + 16 * ((bit(a, 4) + bit(b, 4)) % 2) + 32 * ((bit(a, 5) + bit(b, 5)) % 2)
    + 64 * ((bit(a, 6) + bit(b, 6)) % 2) + 128 * ((bit(a, 7) + bit(b, 7)) % 2)

\* x ^ y
Xor64[x \in Word, y \in Word] ==
    <<xorByte(x[1], y[1]), xorByte(x[2], y[2]), xorByte(x[3], y[3]),
      xorByte(x[4], y[4]), xorByte(x[5], y[5]), xorByte(x[6], y[6]),
      xorByte(x[7], y[7]), xorByte(x[8], y[8])>>

\* Byte j (0 = least significant) of x rotated left by r bits: its low bits
\* come from byte j - r/8 of x, its high bits from the byte below that one.
rotlByte(x, r, j) ==
    ((x[((j + 8 - (r \div 8)) % 8) + 1] * Pow2(r % 8)) % 256)
    + (x[((j + 7 - (r \div 8)) % 8) + 1] \div Pow2(8 - (r % 8)))

\* bits.RotateLeft64(x, r), 0 < r < 64
RotateLeft64[x \in Word, r \in 1..63] ==
    <<rotlByte(x, r, 0), rotlByte(x, r, 1), rotlByte(x, r, 2), rotlByte(x, r, 3),
      rotlByte(x, r, 4), rotlByte(x, r, 5), rotlByte(x, r, 6), rotlByte(x, r, 7)>>

\* Byte j of x, 0 beyond the eighth.
byteAt(x, j) == IF j < 8 THEN x[j + 1] ELSE 0

\* Byte j of x >> r.
shrByte(x, r, j) ==
    (byteAt(x, j + (r \div 8)) \div Pow2(r % 8))
    + ((byteAt(x, j + (r \div 8) + 1) * Pow2(8 - (r % 8))) % 256)

\* x >> r, 0 < r < 64
Shr64[x \in Word, r \in 1..63] ==
    <<shrByte(x, r, 0), shrByte(x, r, 1), shrByte(x, r, 2), shrByte(x, r, 3),
      shrByte(x, r, 4), shrByte(x, r, 5), shrByte(x, r, 6), shrByte(x, r, 7)>>

\* Bytes j..8 of x + y + carry.
addBytes[x \in Word, y \in Word, j \in 1..9, carry \in Nat] ==
    IF j > 8 THEN <<>>
    ELSE <<(x[j] + y[j] + carry) % 256>>
         \o addBytes[x, y, j + 1, (x[j] + y[j] + carry) \div 256]

\* x + y, wrapping at 2^64
Add64[x \in Word, y \in Word] == addBytes[x, y, 1, 0]

\* The sum of the byte products x[i] * y[p + 1 - i], i..p: column p of the
\* long multiplication.
colSum[x \in Word, y \in Word, p \in 1..8, i \in 1..9] ==
    IF i > p THEN 0 ELSE x[i] * y[p + 1 - i] + colSum[x, y, p, i + 1]

\* Bytes p..8 of x * y, given the carry into column p.
mulBytes[x \in Word, y \in Word, p \in 1..9, carry \in Nat] ==
    IF p > 8 THEN <<>>
    ELSE <<(carry + colSum[x, y, p, 1]) % 256>>
         \o mulBytes[x, y, p + 1, (carry + colSum[x, y, p, 1]) \div 256]

\* x * y, wrapping at 2^64
Mul64[x \in Word, y \in Word] == mulBytes[x, y, 1, 0]

\* ((r * 256^j) + bytes j..1 of x) % n
modBytes[x \in Word, n \in Nat \ {0}, j \in 0..8, r \in Nat] ==
    IF j < 1 THEN r ELSE modBytes[x, n, j - 1, (r * 256 + x[j]) % n]

\* x % n for a 64-bit x and a small n >= 1
Mod64(x, n) == modBytes[x, n, 8, 0]

\* The little-endian uint64 read from the first 8 bytes of p (missing ones
\* are 0).
Load64[p \in Word] == [j \in 1..8 |-> IF j <= Len(p) THEN p[j] ELSE 0]

----------------------------------------------------------------------------
(* murmur3.New64(): the 128-bit x64 murmur3 with seed 0, of which Sum64    *)
(* returns the first half. The state is h = <<h1, h2>>.                    *)

c1_128 == <<213, 83, 66, 17, 145, 123, 195, 135>>      \* 0x87c37b91114253d5
c2_128 == <<127, 147, 69, 39, 67, 173, 245, 76>>       \* 0x4cf5ad432745937f
fmixA == <<205, 140, 85, 237, 215, 175, 81, 255>>      \* 0xff51afd7ed558ccd
fmixB == <<83, 236, 133, 26, 254, 185, 206, 196>>      \* 0xc4ceb9fe1a85ec53
h1Add == <<41, 231, 220, 82, 0, 0, 0, 0>>              \* 0x52dce729
h2Add == <<181, 90, 73, 56, 0, 0, 0, 0>>               \* 0x38495ab5
five == <<5, 0, 0, 0, 0, 0, 0, 0>>

\* k1 *= c1; k1 = rotl(k1, 31); k1 *= c2   and its mirror for k2
mixK1[k1 \in Word] == Mul64[RotateLeft64[Mul64[k1, c1_128], 31], c2_128]
mixK2[k2 \in Word] == Mul64[RotateLeft64[Mul64[k2, c2_128], 33], c1_128]

\* k ^= k >> 33
xorShift33[k \in Word] == Xor64[k, Shr64[k, 33]]

fmix64[k \in Word] ==
    xorShift33[Mul64[xorShift33[Mul64[xorShift33[k], fmixA]], fmixB]]

\* h1 ^= k1; h1 = rotl(h1, 27); h1 += h2; h1 = h1*5 + 0x52dce729
blockH1[h \in Seq(Word), block \in Word] ==
    Add64[Mul64[Add64[RotateLeft64[Xor64[h[1], mixK1[Load64[SubSeq(block, 1, 8)]]], 27],
                      h[2]],
                five],
          h1Add]

\* h2 ^= k2; h2 = rotl(h2, 31); h2 += h1; h2 = h2*5 + 0x38495ab5
blockH2[h \in Seq(Word), block \in Word, h1 \in Word] ==
    Add64[Mul64[Add64[RotateLeft64[Xor64[h[2], mixK2[Load64[SubSeq(block, 9, 16)]]], 31],
                      h1],
                five],
          h2Add]

\* <<h1, h2>> given the new h1
withH2[h \in Seq(Word), block \in Word, h1 \in Word] == <<h1, blockH2[h, block, h1]>>

\* One 16-byte block mixed into the state.
bmixBlock[h \in Seq(Word), block \in Word] == withH2[h, block, blockH1[h, block]]

\* The state after every whole 16-byte block of p.
bmix[h \in Seq(Word), p \in Word] ==
    IF Len(p) < 16 THEN h
    ELSE bmix[bmixBlock[h, SubSeq(p, 1, 16)], SubSeq(p, 17, Len(p))]

\* The tail (the last Len(p) % 16 bytes) mixed into the state.
tailMix[h \in Seq(Word), tail \in Word] ==
    <<IF Len(tail) > 0 THEN Xor64[h[1], mixK1[Load64[tail]]] ELSE h[1],
      IF Len(tail) > 8
      THEN Xor64[h[2], mixK2[Load64[SubSeq(tail, 9, Len(tail))]]]
      ELSE h[2]>>

\* h1 ^= clen; h2 ^= clen
lenMix[h \in Seq(Word), clen \in Nat] == <<Xor64[h[1], U64[clen]], Xor64[h[2], U64[clen]]>>

\* h2 += s, s being the new h1
addH2[h \in Seq(Word), s \in Word] == <<s, Add64[h[2], s]>>

\* h1 += h2; h2 += h1
addMix[h \in Seq(Word)] == addH2[h, Add64[h[1], h[2]]]

\* h1 = fmix64(h1); h2 = fmix64(h2)
fmixBoth[h \in Seq(Word)] == <<fmix64[h[1]], fmix64[h[2]]>>

Sum128[p \in Word] ==
    addMix[fmixBoth[addMix[lenMix[
        tailMix[bmix[<<Zero64, Zero64>>, p],
                SubSeq(p, 16 * (Len(p) \div 16) + 1, Len(p))],
        Len(p)]]]]

Sum64(p) == Sum128[p][1]

----------------------------------------------------------------------------
(* github.com/willf/bitset as bloom.go uses it: a length and the set of    *)
(* the indices whose bit is 1. Set grows the bit set when handed an index  *)
(* at or beyond its length; Test of such an index is false.                *)

bitsetNew(length) == [length |-> length, ones |-> {}]

\* Set with "=" for "|=": the other bits are lost.
bitsetSetOverwrites(b, i) ==
    [length |-> IF i >= b.length THEN i + 1 ELSE b.length, ones |-> {i}]

\* Set with "^=" for "|=": a bit that is 1 becomes 0.
bitsetSetFlips(b, i) ==
    [length |-> IF i >= b.length THEN i + 1 ELSE b.length,
     ones   |-> IF i \in b.ones THEN b.ones \ {i} ELSE b.ones \cup {i}]

bitsetSet(b, i) ==
    [length |-> IF i >= b.length THEN i + 1 ELSE b.length,
     ones   |-> b.ones \cup {i}]

bitsetTest(b, i) == i < b.length /\ i \in b.ones

bitsetClearAll(b) == [length |-> b.length, ones |-> {}]

----------------------------------------------------------------------------
(* bloom.go                                                                *)

\* The nil *BloomFilter, and the nil error.
NilFilter == [nil |-> TRUE, m |-> 0, k |-> 0, b |-> bitsetNew(0)]
NilError == "<nil>"

uintToBytes(value) == [j \in 1..4 |-> (value \div Pow2(8 * (j - 1))) % 256]

\* New without its check of k.
NewNoKCheck(m, k) ==
    IF m < 1 THEN [f |-> NilFilter, err |-> "New m < 1"]
    ELSE [f   |-> [nil |-> FALSE, m |-> m, k |-> k, b |-> bitsetNew(m)],
          err |-> NilError]

New(m, k) ==
    IF m < 1 THEN [f |-> NilFilter, err |-> "New m < 1"]
    ELSE IF k < 1 THEN [f |-> NilFilter, err |-> "New k < 1"]
    ELSE [f   |-> [nil |-> FALSE, m |-> m, k |-> k, b |-> bitsetNew(m)],
          err |-> NilError]

\* hasher.Write(result); hasher.Sum64(), computed once for each byte
\* sequence the model hashes.
HashInputs == { x \o uintToBytes(i) : x \in Items, i \in 0..MaxK }
hashTable == [p \in HashInputs |-> Sum64(p)]
hasherSum64(result) ==
    IF result \in HashInputs THEN hashTable[result] ELSE Sum64(result)

\* location reducing modulo m + 1.
locationOffByOne(flt, data, i) ==
    LET result == data \o uintToBytes(i)
    IN  Mod64(hasherSum64(result), flt.m + 1)

location(flt, data, i) ==
    LET result == data \o uintToBytes(i)
    IN  Mod64(hasherSum64(result), flt.m)

\* Cap returning the other field.
CapReturnsK(flt) == flt.k

Cap(flt) == flt.m

HashFunctionNum(flt) == flt.k

RECURSIVE addLoop(_, _, _)
addLoop(flt, data, i) ==
    IF i < flt.k
    THEN addLoop([flt EXCEPT !.b = bitsetSet(flt.b, location(flt, data, i))],
                 data, i + 1)
    ELSE flt

\* Add with the loop bound k - 1.
RECURSIVE addLoopSkipLast(_, _, _)
addLoopSkipLast(flt, data, i) ==
    IF i < flt.k - 1
    THEN addLoopSkipLast([flt EXCEPT !.b = bitsetSet(flt.b, location(flt, data, i))],
                         data, i + 1)
    ELSE flt

AddSkipLast(flt, data) == addLoopSkipLast(flt, data, 0)

\* Add with the loop started at round 1.
AddFromOne(flt, data) == addLoop(flt, data, 1)

Add(flt, data) == addLoop(flt, data, 0)

\* []byte(data): a Go string is the sequence of its bytes.
AddString(flt, data) == Add(flt, data)

RECURSIVE testLoop(_, _, _)
testLoop(flt, data, i) ==
    IF i < flt.k
    THEN IF ~bitsetTest(flt.b, location(flt, data, i))
         THEN FALSE
         ELSE testLoop(flt, data, i + 1)
    ELSE TRUE

Test(flt, data) == testLoop(flt, data, 0)

TestString(flt, data) == Test(flt, data)

RECURSIVE testLocationsLoop(_, _, _)
testLocationsLoop(flt, locs, i) ==
    IF i < Len(locs)
    THEN IF ~bitsetTest(flt.b, Mod64(locs[i + 1], flt.m))
         THEN FALSE
         ELSE testLocationsLoop(flt, locs, i + 1)
    ELSE TRUE

\* TestLocations with the loop bound len(locs) - 1.
TestLocationsSkipLast(flt, locs) ==
    IF Len(locs) = 0 THEN TRUE
    ELSE testLocationsLoop(flt, SubSeq(locs, 1, Len(locs) - 1), 0)

TestLocations(flt, locs) == testLocationsLoop(flt, locs, 0)

RECURSIVE testAndAddLoop(_, _, _, _)
testAndAddLoop(flt, data, i, present) ==
    IF i < flt.k
    THEN LET l == location(flt, data, i)
         IN  testAndAddLoop([flt EXCEPT !.b = bitsetSet(flt.b, l)], data, i + 1,
                            IF ~bitsetTest(flt.b, l) THEN FALSE ELSE present)
    ELSE [f |-> flt, present |-> present]

\* TestAndAdd returning at the first bit that is not set, as Test does.
RECURSIVE testAndAddLoopReturnsEarly(_, _, _)
testAndAddLoopReturnsEarly(flt, data, i) ==
    IF i < flt.k
    THEN LET l == location(flt, data, i)
         IN  IF ~bitsetTest(flt.b, l)
             THEN [f |-> [flt EXCEPT !.b = bitsetSet(flt.b, l)], present |-> FALSE]
             ELSE testAndAddLoopReturnsEarly(flt, data, i + 1)
    ELSE [f |-> flt, present |-> TRUE]

TestAndAddReturnsEarly(flt, data) == testAndAddLoopReturnsEarly(flt, data, 0)

\* The filter TestAndAdd leaves and the boolean it returns.
TestAndAdd(flt, data) == testAndAddLoop(flt, data, 0, TRUE)

TestAndAddString(flt, data) == TestAndAdd(flt, data)

\* ClearAll that clears nothing.
ClearAllKeeps(flt) == flt

ClearAll(flt) == [flt EXCEPT !.b = bitsetClearAll(flt.b)]

----------------------------------------------------------------------------
(* A caller that holds one handle: it calls New until New succeeds and     *)
(* then calls the filter's methods in any order.                           *)
(*   f         the handle New returned (NilFilter before, and on error)    *)
(*   err       the error New returned                                      *)
(*   op        the last call: its name and its arguments                   *)
(*   ret       what the last call returned: a boolean, a uint, or "f" /    *)
(*             "nil" for a call that returns the handle                    *)
(*   given     the <<m, k>> of the New that succeeded                      *)
(*   inserted  the items handed to Add / TestAndAdd (and their String      *)
(*             forms) since New or the last ClearAll                       *)
(*   wiped     whether the last ClearAll dropped an inserted item          *)

VARIABLES f, err, op, ret, given, inserted, wiped

vars == <<f, err, op, ret, given, inserted, wiped>>

Init ==
    /\ f = NilFilter
    /\ err = NilError
    /\ op = [name |-> "none", arg |-> <<>>]
    /\ ret = "nil"
    /\ given = <<0, 0>>
    /\ inserted = {}
    /\ wiped = FALSE

NewCall(m0, k0) ==
    /\ f.nil
    /\ LET r == New(m0, k0)
       IN  /\ f' = r.f
           /\ err' = r.err
           /\ ret' = IF r.f.nil THEN "nil" ELSE "f"
           /\ given' = IF r.f.nil THEN given ELSE <<m0, k0>>
    /\ op' = [name |-> "New", arg |-> <<m0, k0>>]
    /\ inserted' = {}
    /\ UNCHANGED wiped

AddCall(data) ==
    /\ ~f.nil
    /\ f' = Add(f, data)
    /\ ret' = "f"
    /\ op' = [name |-> "Add", arg |-> data]
    /\ inserted' = inserted \cup {data}
    /\ UNCHANGED <<err, given, wiped>>

AddStringCall(data) ==
    /\ ~f.nil
    /\ f' = AddString(f, data)
    /\ ret' = "f"
    /\ op' = [name |-> "AddString", arg |-> data]
    /\ inserted' = inserted \cup {data}
    /\ UNCHANGED <<err, given, wiped>>

TestCall(data) ==
    /\ ~f.nil
    /\ ret' = Test(f, data)
    /\ op' = [name |-> "Test", arg |-> data]
    /\ UNCHANGED <<f, err, given, inserted, wiped>>

TestStringCall(data) ==
    /\ ~f.nil
    /\ ret' = TestString(f, data)
    /\ op' = [name |-> "TestString", arg |-> data]
    /\ UNCHANGED <<f, err, given, inserted, wiped>>

TestLocationsCall(locs) ==
    /\ ~f.nil
    /\ ret' = TestLocations(f, locs)
    /\ op' = [name |-> "TestLocations", arg |-> locs]
    /\ UNCHANGED <<f, err, given, inserted, wiped>>

TestAndAddCall(data) ==
    /\ ~f.nil
    /\ LET r == TestAndAdd(f, data)
       IN  f' = r.f /\ ret' = r.present
    /\ op' = [name |-> "TestAndAdd", arg |-> data]
    /\ inserted' = inserted \cup {data}
    /\ UNCHANGED <<err, given, wiped>>

TestAndAddStringCall(data) ==
    /\ ~f.nil
    /\ LET r == TestAndAddString(f, data)
       IN  f' = r.f /\ ret' = r.present
    /\ op' = [name |-> "TestAndAddString", arg |-> data]
    /\ inserted' = inserted \cup {data}
    /\ UNCHANGED <<err, given, wiped>>

CapCall ==
    /\ ~f.nil
    /\ ret' = Cap(f)
    /\ op' = [name |-> "Cap", arg |-> <<>>]
    /\ UNCHANGED <<f, err, given, inserted, wiped>>

HashFunctionNumCall ==
    /\ ~f.nil
    /\ ret' = HashFunctionNum(f)
    /\ op' = [name |-> "HashFunctionNum", arg |-> <<>>]
    /\ UNCHANGED <<f, err, given, inserted, wiped>>

ClearAllCall ==
    /\ ~f.nil
    /\ f' = ClearAll(f)
    /\ ret' = "f"
    /\ op' = [name |-> "ClearAll", arg |-> <<>>]
    /\ inserted' = {}
    /\ wiped' = (inserted # {})
    /\ UNCHANGED <<err, given>>

Next ==
    \/ \E m0 \in 0..MaxM, k0 \in 0..MaxK : NewCall(m0, k0)
    \/ \E data \in Items : AddCall(data)
    \/ \E data \in Items : AddStringCall(data)
    \/ \E data \in Items : TestCall(data)
    \/ \E data \in Items : TestStringCall(data)
    \/ \E locs \in LocSeqs : TestLocationsCall(locs)
    \/ \E data \in Items : TestAndAddCall(data)
    \/ \E data \in Items : TestAndAddStringCall(data)
    \/ CapCall
    \/ HashFunctionNumCall
    \/ ClearAllCall

Spec == Init /\ [][Next]_vars

----------------------------------------------------------------------------
(* The properties.                                                         *)

AddNames == {"Add", "AddString"}
TestNames == {"Test", "TestString"}
TestAndAddNames == {"TestAndAdd", "TestAndAddString"}
QueryNames == {"Test", "TestString", "TestLocations", "Cap", "HashFunctionNum"}

\* The positions of an item: {location(x, i) : 0 <= i < k}.
Positions(flt, x) == { location(flt, x, i) : i \in 0..(flt.k - 1) }

\* C1. No false negatives: as long as no ClearAll has run since x was
\* inserted by Add or TestAndAdd, Test(x) is true, whatever calls were made
\* since; and a Test call made for such an x has returned true.
NoFalseNegatives ==
    /\ ~f.nil => \A x \in inserted : Test(f, x) /\ TestString(f, x)
    /\ (op.name \in TestNames /\ op.arg \in inserted) => ret = TRUE

\* Test was called for an inserted item after another item was inserted too.
NoFalseNegativesWitness ==
    /\ op.name = "Test"
    /\ op.arg \in inserted
    /\ Cardinality(inserted) >= 2
    /\ ret = TRUE

\* C2. TestAndAdd(x) returns what Test(x) returns in the state before the
\* call and leaves the filter Add(x) leaves from that state, in which Test(x)
\* is true.
TestAndAddIsTestThenAdd ==
    [][op'.name \in TestAndAddNames =>
          /\ ret' = Test(f, op'.arg)
          /\ f' = Add(f, op'.arg)
          /\ Test(f', op'.arg)]_vars

\* TestAndAdd returned false for an item two of whose rounds share a position.
TestAndAddWitness ==
    /\ op.name = "TestAndAdd"
    /\ ret = FALSE
    /\ f.k >= 2
    /\ Cardinality(Positions(f, op.arg)) < f.k
    /\ Positions(f, op.arg) \subseteq f.b.ones

\* C3. New(m, k) returns an error and no filter when m < 1 or k < 1, and
\* otherwise no error and a filter of capacity m with k hash rounds and m
\* bits, all cleared.
NewValidates ==
    op.name = "New" =>
        IF op.arg[1] < 1 \/ op.arg[2] < 1
        THEN f.nil /\ ret = "nil" /\ err # NilError
        ELSE /\ ~f.nil /\ ret = "f" /\ err = NilError
             /\ Cap(f) = op.arg[1]
             /\ HashFunctionNum(f) = op.arg[2]
             /\ f.b.length = op.arg[1]
             /\ \A i \in 0..(op.arg[1] - 1) : ~bitsetTest(f.b, i)

\* New was refused for k = 0 alone.
NewValidatesWitness ==
    /\ op.name = "New"
    /\ op.arg[1] >= 1
    /\ op.arg[2] = 0
    /\ f.nil
    /\ err = "New k < 1"

\* C4. ClearAll leaves the filter New(m, k) returns for the same m and k, and
\* until an item is inserted again the filter stays that one and Test is false
\* for every item.
ClearAllResets ==
    [][/\ op'.name = "ClearAll" =>
              /\ f' = New(f.m, f.k).f
              /\ f'.m = f.m /\ f'.k = f.k
              /\ f'.b.ones = {}
       /\ (~f'.nil /\ inserted' = {}) =>
              /\ f' = New(f'.m, f'.k).f
              /\ \A x \in Items : ~Test(f', x)
              /\ op'.name \in TestNames => ret' = FALSE]_vars

\* Test returned false after a ClearAll that dropped an inserted item.
ClearAllResetsWitness ==
    /\ wiped
    /\ inserted = {}
    /\ op.name = "Test"
    /\ ret = FALSE
    /\ f.m >= 2

\* C5. Every call but ClearAll leaves every 1 bit a 1 bit.
BitsMonotone ==
    [][op'.name # "ClearAll" => f.b.ones \subseteq f'.b.ones]_vars

\* Add set a new bit of a filter that held other 1 bits, which it kept.
BitsMonotoneWitness ==
    /\ op.name = "Add"
    /\ Cardinality(inserted) >= 2
    /\ f.b.ones # Positions(f, op.arg)
    /\ Cardinality(f.b.ones) >= 3

\* C6. Add(x); Add(x) leaves the bit array of a single Add(x): from every
\* state and for every item, and in particular Add of the item just added
\* changes nothing.
AddIdempotent ==
    /\ ~f.nil => \A x \in Items : Add(Add(f, x), x) = Add(f, x)
    /\ op.name \in AddNames => Add(f, op.arg) = f

\* Add was called for an item with at least two positions.
AddIdempotentWitness ==
    /\ op.name = "Add"
    /\ Cardinality(Positions(f, op.arg)) >= 2
    /\ Positions(f, op.arg) \subseteq f.b.ones

\* C7. Every position of every item, and every value handed to TestLocations
\* once reduced, lies in [0, m); the bit set has length m and no bit at m or
\* beyond is set.
PositionsInRange ==
    ~f.nil =>
        /\ \A x \in Items : \A i \in 0..(f.k - 1) : location(f, x, i) \in 0..(f.m - 1)
        /\ \A v \in LocVals : Mod64(v, f.m) \in 0..(f.m - 1)
        /\ f.b.length = f.m
        /\ f.b.ones \subseteq 0..(f.m - 1)

\* The last bit of a filter of at least three bits is set.
PositionsInRangeWitness ==
    /\ ~f.nil
    /\ f.m >= 3
    /\ (f.m - 1) \in f.b.ones
    /\ f.b.length = f.m

\* C8. Test, TestString, TestLocations, Cap and HashFunctionNum leave the
\* filter as it is; no call changes m or k; Cap returns the m and
\* HashFunctionNum the k given to New.
QueriesChangeNothing ==
    [][/\ op'.name \in QueryNames => f' = f
       /\ ~f.nil => (~f'.nil /\ f'.m = f.m /\ f'.k = f.k /\ given' = given)
       /\ ~f'.nil => (f'.m = given'[1] /\ f'.k = given'[2])
       /\ op'.name = "Cap" => ret' = given'[1]
       /\ op'.name = "HashFunctionNum" => ret' = given'[2]]_vars

\* Cap was called on a filter with items, whose m is not its k.
QueriesChangeNothingWitness ==
    /\ op.name = "Cap"
    /\ ret = given[1]
    /\ given[1] # given[2]
    /\ inserted # {}

\* C9. TestLocations(locs) is true exactly when, for every v of locs, the bit
\* at v mod m is set; it is true of the empty sequence in every state.
TestLocationsAllSet ==
    /\ op.name = "TestLocations" =>
          /\ ret \in BOOLEAN
          /\ ret <=> \A j \in 1..Len(op.arg) : Mod64(op.arg[j], f.m) \in f.b.ones
    /\ ~f.nil => TestLocations(f, <<>>)
    /\ (op.name = "TestLocations" /\ op.arg = <<>>) => ret = TRUE

\* TestLocations was true of two values, one of them 2^64 - 1, on a filter
\* with a bit that is not set.
TestLocationsWitness ==
    /\ op.name = "TestLocations"
    /\ Len(op.arg) = 2
    /\ op.arg[1] # op.arg[2]
    /\ <<255, 255, 255, 255, 255, 255, 255, 255>> \in {op.arg[1], op.arg[2]}
    /\ ret = TRUE
    /\ f.b.ones # 0..(f.m - 1)

\* C10. The 1 bits are exactly the positions of the items inserted since New
\* or the last ClearAll; Add(x); Add(y) leaves the filter of Add(y); Add(x);
\* and Test is false only of items not inserted since.
BitsAreInsertedPositions ==
    /\ ~f.nil =>
          /\ f.b.ones = UNION { Positions(f, x) : x \in inserted }
          /\ \A x \in Items : \A y \in Items :
                 Add(Add(f, x), y) = Add(Add(f, y), x)
          /\ \A y \in Items : ~Test(f, y) => y \notin inserted
    /\ (op.name \in TestNames /\ ret = FALSE) => op.arg \notin inserted

\* Test returned false with two items inserted.
BitsAreInsertedPositionsWitness ==
    /\ op.name = "Test"
    /\ ret = FALSE
    /\ Cardinality(inserted) >= 2
    /\ wiped

====
